---- MODULE Spec2Model ----
(***************************************************************************)
(* Model of scripts/prototype_sim.py ("Carcel de los Gemelos" prototype).  *)
(*                                                                         *)
(* The file holds one Player class, five rule functions and a __main__     *)
(* block.  Three entry points are modelled:                                *)
(*   pc = "compile" : python is handed the file as it is shipped; line 2   *)
(*                    is indented under line 1, so compilation of the      *)
(*                    module stops with IndentationError and no statement  *)
(*                    of the file runs;                                    *)
(*   pc = "main"    : the statements of the __main__ block, lines 83-98,   *)
(*                    with the definitions of lines 4-79 in place;         *)
(*   pc = "rules"   : the rule functions of lines 17-79 called directly on *)
(*                    freshly constructed Players (RuleSpec).              *)
(* Every random.* call is a nondeterministic choice over its range.        *)
(***************************************************************************)
EXTENDS Integers, Sequences, FiniteSets, TLC

VARIABLES pc,        \* position of the run
          players,   \* name -> Player object (its fields)
          d,         \* loop variable of line 88
          i,         \* index of the inner loop of line 90 in the list of line 86
          events,    \* the rule calls the __main__ block has made, in order
          draws,     \* draws of the __main__ run: how many coins of line 29 came up
                     \* True, and the drains of line 40 in list order
          last,      \* the most recent rule call: arguments, state before, draws, result
          calls,     \* number of rule calls made from the "rules" entry
          test       \* which rule the "rules" entry exercises

vars == <<pc, players, d, i, events, draws, last, calls, test>>

----------------------------------------------------------------------------
(* Program constants *)

InitSanity == 100
InitLoyalty == 50
InitDay == 1
EmpathyMin == 30
EmpathyMax == 70
NoiseMin == 10
NoiseMax == 20
RollMin == 0
RollMax == 150
FirstDay == 1
LastDay == 6

(* Bounds of the model *)

EmpathyStride == 20   \* empathy draws are sampled every EmpathyStride from EmpathyMin
MaxDay == 7           \* days the "rules" entry assigns to a Player are 1..MaxDay
MaxCalls == 2         \* day-effect / privacy calls the "rules" entry makes on one cast

Archetypes == {"Redeemed", "Veteran", "Mystic"}

EmpathyDraws == {e \in EmpathyMin..EmpathyMax : (e - EmpathyMin) % EmpathyStride = 0}
NoiseDraws == NoiseMin..NoiseMax
Rolls == RollMin..RollMax

----------------------------------------------------------------------------
(* Player.__init__ : e is the value of random.randint(30, 70) *)
Player(name, archetype, e) ==
    [name |-> name, archetype |-> archetype, sanity |-> InitSanity,
     loyalty |-> InitLoyalty, day |-> InitDay, has_consumed |-> FALSE,
     empathy |-> e]

(* The draws one call of process_day_logic consumes: random.choice([True,   *)
(* False]) is evaluated in the Veteran branch only.                         *)
DayDraws(player) ==
    IF player.archetype = "Veteran" THEN {<<TRUE>>, <<FALSE>>} ELSE {<<>>}

(* Variants of process_day_logic with one slip each *)
process_day_logic_lt(player, rnd) ==
    LET p1 == IF player.archetype = "Redeemed"
              THEN IF player.day < 5
                   THEN [player EXCEPT !.sanity = @ - 5]
                   ELSE IF ~player.has_consumed
                        THEN [player EXCEPT !.sanity = @ + 20]
                        ELSE player
              ELSE player
    IN  IF p1.archetype = "Veteran"
        THEN IF rnd[1]
             THEN [p1 EXCEPT !.sanity = @ - 10]
             ELSE [p1 EXCEPT !.sanity = @ + 5]
        ELSE p1

process_day_logic_once(player, rnd) ==
    LET p1 == IF player.archetype = "Redeemed"
              THEN IF player.day <= 5
                   THEN [player EXCEPT !.sanity = @ - 5]
                   ELSE IF ~player.has_consumed
                        THEN [player EXCEPT !.sanity = @ + 20, !.has_consumed = TRUE]
                        ELSE player
              ELSE player
    IN  IF p1.archetype = "Veteran"
        THEN IF rnd[1]
             THEN [p1 EXCEPT !.sanity = @ - 10]
             ELSE [p1 EXCEPT !.sanity = @ + 5]
        ELSE p1

process_day_logic_quiet(player, rnd) ==
    LET p1 == IF player.archetype = "Redeemed"
              THEN IF player.day <= 5
                   THEN [player EXCEPT !.sanity = @ - 5]
                   ELSE IF ~player.has_consumed
                        THEN [player EXCEPT !.sanity = @ + 20]
                        ELSE player
              ELSE player
    IN  IF p1.archetype = "Veteran"
        THEN IF rnd[1]
             THEN [p1 EXCEPT !.sanity = @ - 10]
             ELSE p1
        ELSE p1

(* process_day_logic(player): the Player after the call; rnd is the sequence *)
(* of draws the call consumes (rnd[1] is `socializing`).                     *)
process_day_logic(player, rnd) ==
    LET p1 == IF player.archetype = "Redeemed"
              THEN IF player.day <= 5
                   THEN [player EXCEPT !.sanity = @ - 5]
                   ELSE IF ~player.has_consumed
                        THEN [player EXCEPT !.sanity = @ + 20]
                        ELSE player
              ELSE player
    IN  IF p1.archetype = "Veteran"
        THEN IF rnd[1]
             THEN [p1 EXCEPT !.sanity = @ - 10]
             ELSE [p1 EXCEPT !.sanity = @ + 5]
        ELSE p1

(* Variant: the drain is halved for every archetype *)
RECURSIVE noise_loop_halved(_, _, _, _)
noise_loop_halved(ps, seq, rnd, k) ==
    IF k > Len(seq) THEN ps
    ELSE LET p == seq[k]
             drain == rnd[k] \div 2
         IN  noise_loop_halved([ps EXCEPT ![p].sanity = @ - drain], seq, rnd, k + 1)

simulate_noise_event_halved(ps, seq, rnd) == noise_loop_halved(ps, seq, rnd, 1)

(* simulate_noise_event: the loop of lines 39-45 from entry k of the list;   *)
(* rnd[k] is the value of random.randint(10, 20) drawn for entry k.          *)
RECURSIVE noise_loop(_, _, _, _)
noise_loop(ps, seq, rnd, k) ==
    IF k > Len(seq) THEN ps
    ELSE LET p == seq[k]
             drain == IF ps[p].archetype = "Mystic" THEN rnd[k] \div 2 ELSE rnd[k]
         IN  noise_loop([ps EXCEPT ![p].sanity = @ - drain], seq, rnd, k + 1)

simulate_noise_event(ps, seq, rnd) == noise_loop(ps, seq, rnd, 1)

(* Variants: both assignments computed from the state before the call; the  *)
(* two amounts exchanged                                                    *)
simulate_privacy_drain_parallel(ps, p1, p2) ==
    [n \in DOMAIN ps |->
        IF n = p2 THEN [ps[n] EXCEPT !.sanity = @ - 3]
        ELSE IF n = p1 THEN [ps[n] EXCEPT !.sanity = @ - 5]
        ELSE ps[n]]

simulate_privacy_drain_swapped(ps, p1, p2) ==
    LET a == [ps EXCEPT ![p1].sanity = @ - 3]
    IN  [a EXCEPT ![p2].sanity = @ - 5]

(* simulate_privacy_drain(p1, p2): two assignments in sequence *)
simulate_privacy_drain(ps, p1, p2) ==
    LET a == [ps EXCEPT ![p1].sanity = @ - 5]
    IN  [a EXCEPT ![p2].sanity = @ - 3]

(* Variant: >= in place of > *)
betrayal_check_ge(player, roll) ==
    LET threshold == player.empathy + (100 - player.sanity)
    IN  roll >= threshold

(* betrayal_check(player): roll is the value of random.randint(0, 150) *)
betrayal_check(player, roll) ==
    LET threshold == player.empathy + (100 - player.sanity)
    IN  roll > threshold

(* The values betrayal_check(player) can return over the draws of its roll *)
BetrayalOutcomes(player) == {betrayal_check(player, roll) : roll \in Rolls}

(* Variant: the two single-betrayal rows name the other Player *)
simulate_duo_dilemma_crossed(ps, p1, p2, p1_betray, p2_betray) ==
    LET choice1 == IF p1_betray THEN "Betray" ELSE "Cooperate"
        choice2 == IF p2_betray THEN "Betray" ELSE "Cooperate"
    IN  IF choice1 = "Cooperate" /\ choice2 = "Cooperate"
        THEN [choice1 |-> choice1, choice2 |-> choice2,
              result |-> "split", winner |-> "none"]
        ELSE IF choice1 = "Betray" /\ choice2 = "Cooperate"
        THEN [choice1 |-> choice1, choice2 |-> choice2,
              result |-> "wins", winner |-> ps[p2].name]
        ELSE IF choice1 = "Cooperate" /\ choice2 = "Betray"
        THEN [choice1 |-> choice1, choice2 |-> choice2,
              result |-> "wins", winner |-> ps[p1].name]
        ELSE [choice1 |-> choice1, choice2 |-> choice2,
              result |-> "lost", winner |-> "none"]

(* simulate_duo_dilemma, lines 66-79: p1_betray and p2_betray are the values *)
(* the two betrayal_check calls of lines 63-64 returned.                     *)
simulate_duo_dilemma(ps, p1, p2, p1_betray, p2_betray) ==
    LET choice1 == IF p1_betray THEN "Betray" ELSE "Cooperate"
        choice2 == IF p2_betray THEN "Betray" ELSE "Cooperate"
    IN  IF choice1 = "Cooperate" /\ choice2 = "Cooperate"
        THEN [choice1 |-> choice1, choice2 |-> choice2,
              result |-> "split", winner |-> "none"]
        ELSE IF choice1 = "Betray" /\ choice2 = "Cooperate"
        THEN [choice1 |-> choice1, choice2 |-> choice2,
              result |-> "wins", winner |-> ps[p1].name]
        ELSE IF choice1 = "Cooperate" /\ choice2 = "Betray"
        THEN [choice1 |-> choice1, choice2 |-> choice2,
              result |-> "wins", winner |-> ps[p2].name]
        ELSE [choice1 |-> choice1, choice2 |-> choice2,
              result |-> "lost", winner |-> "none"]

----------------------------------------------------------------------------
(* History records *)

NoCall == [op |-> "none", args |-> <<>>, pre |-> <<>>, rnd |-> <<>>, ret |-> "none"]
Call(op, args, pre, rnd, ret) ==
    [op |-> op, args |-> args, pre |-> pre, rnd |-> rnd, ret |-> ret]
Event(call, args, dd, seen) == [call |-> call, args |-> args, d |-> dd, seen |-> seen]
NoDraws == [social |-> 0, noise |-> <<>>]

----------------------------------------------------------------------------
(* The script as shipped, and its __main__ block *)

MainList == <<"Frank", "Simon">>

Init ==
    /\ pc \in {"compile", "main"}
    /\ players = <<>>
    /\ d = 0 /\ i = 0
    /\ events = <<>>
    /\ draws = NoDraws
    /\ last = NoCall
    /\ calls = 0
    /\ test = "none"

(* Lines 1-2: `import random` followed by an indented print.  The compiler   *)
(* rejects the file before any statement runs; the exit status is 1.         *)
Compile ==
    /\ pc = "compile"
    /\ pc' = "IndentationError"
    /\ UNCHANGED <<players, d, i, events, draws, last, calls, test>>

(* Lines 83-88: the two Players and their list; the loop starts at day 1 *)
Construct ==
    /\ pc = "main"
    /\ \E ef \in EmpathyDraws, es \in EmpathyDraws :
         players' = [n \in {"Frank", "Simon"} |->
                       IF n = "Frank" THEN Player("Frank", "Veteran", ef)
                                      ELSE Player("Simon", "Redeemed", es)]
    /\ d' = FirstDay /\ i' = 1
    /\ pc' = "day"
    /\ UNCHANGED <<events, draws, last, calls, test>>

(* Where the run goes once the inner loop of day dd is over (lines 94, 88, 98) *)
after_players(dd) ==
    IF dd = 3 THEN "noise"
    ELSE IF dd < LastDay THEN "day" ELSE "endgame"

(* Variant: the day-effect runs before the day is assigned *)
day_body_late(ps, p, dd, rnd) ==
    LET done == [ps EXCEPT ![p] = process_day_logic(ps[p], rnd)]
    IN  [ps |-> [done EXCEPT ![p].day = dd], seen |-> ps[p].day]

(* Lines 91-92 for players[i] on day d *)
day_body(ps, p, dd, rnd) ==
    LET set == [ps EXCEPT ![p].day = dd]
    IN  [ps |-> [set EXCEPT ![p] = process_day_logic(set[p], rnd)],
         seen |-> set[p].day]

DayStep ==
    /\ pc = "day"
    /\ i <= Len(MainList)
    /\ LET p == MainList[i]
       IN  \E rnd \in DayDraws(players[p]) :
             LET r == day_body(players, p, d, rnd)
             IN  /\ players' = r.ps
                 /\ events' = Append(events, Event("process_day_logic", <<p>>, d, r.seen))
                 /\ draws' = IF rnd = <<TRUE>>
                             THEN [draws EXCEPT !.social = @ + 1]
                             ELSE draws
    /\ IF i < Len(MainList)
       THEN /\ i' = i + 1 /\ d' = d /\ pc' = "day"
       ELSE LET nx == after_players(d)
            IN  /\ pc' = nx
                /\ i' = 1
                /\ d' = IF nx = "day" THEN d + 1 ELSE d
    /\ UNCHANGED <<last, calls, test>>

(* Line 95 *)
NoiseStep ==
    /\ pc = "noise"
    /\ \E rnd \in [1..Len(MainList) -> NoiseDraws] :
         /\ players' = simulate_noise_event(players, MainList, rnd)
         /\ draws' = [draws EXCEPT !.noise = rnd]
    /\ events' = Append(events, Event("simulate_noise_event", MainList, d, 0))
    /\ pc' = "privacy"
    /\ UNCHANGED <<d, i, last, calls, test>>

(* Line 96, then the loop of line 88 goes on *)
PrivacyStep ==
    /\ pc = "privacy"
    /\ players' = simulate_privacy_drain(players, "Frank", "Simon")
    /\ events' = Append(events, Event("simulate_privacy_drain", <<"Frank", "Simon">>, d, 0))
    /\ pc' = "day" /\ d' = d + 1 /\ i' = 1
    /\ UNCHANGED <<draws, last, calls, test>>

(* Line 98 *)
EndgameStep ==
    /\ pc = "endgame"
    /\ \E b1 \in BetrayalOutcomes(players["Frank"]),
          b2 \in BetrayalOutcomes(players["Simon"]) :
         last' = Call("simulate_duo_dilemma", <<"Frank", "Simon">>, players, <<>>,
                      simulate_duo_dilemma(players, "Frank", "Simon", b1, b2))
    /\ events' = Append(events, Event("simulate_duo_dilemma", <<"Frank", "Simon">>, d, 0))
    /\ pc' = "done"
    /\ UNCHANGED <<players, d, i, draws, calls, test>>

Next == Compile \/ Construct \/ DayStep \/ NoiseStep \/ PrivacyStep \/ EndgameStep

Spec == Init /\ [][Next]_vars

----------------------------------------------------------------------------
(* The rule functions called directly ("rules" entry).  A run constructs a  *)
(* cast of Players, may age them with day-effect calls (at most MaxCalls),  *)
(* and calls the rule under `test`.                                         *)

Tests == {"day", "noise", "privacy", "betrayal", "duo"}

CastNames(t) == IF t \in {"day", "betrayal"} THEN {"A"} ELSE {"A", "B"}

(* One-Player casts draw empathy over the whole range of line 12; two-Player *)
(* casts sample it every EmpathyStride.                                      *)
CastEmpathy(t) == IF t \in {"day", "betrayal"} THEN EmpathyMin..EmpathyMax ELSE EmpathyDraws

Casts(t) ==
    {[n \in CastNames(t) |-> Player(n, a[n], e[n])] :
        a \in [CastNames(t) -> Archetypes], e \in [CastNames(t) -> CastEmpathy(t)]}

(* The lists a cast can be passed as: every sequence of its Players, repeats *)
(* included, no longer than the cast.                                        *)
Lists(ps) == UNION {[1..n -> DOMAIN ps] : n \in 0..Cardinality(DOMAIN ps)}

RuleInit ==
    /\ pc = "rules"
    /\ test \in Tests
    /\ players \in Casts(test)
    /\ d = 0 /\ i = 0
    /\ events = <<>>
    /\ draws = NoDraws
    /\ last = NoCall
    /\ calls = 0

(* p.day = dd, as line 91 does before the day-effect *)
SetDay(p, dd) ==
    /\ pc = "rules" /\ test = "day"
    /\ players[p].day # dd
    /\ players' = [players EXCEPT ![p].day = dd]
    /\ last' = NoCall
    /\ UNCHANGED <<pc, d, i, events, draws, calls, test>>

ProcessDay(p) ==
    /\ pc = "rules" /\ test # "privacy"
    /\ calls < MaxCalls
    /\ \E rnd \in DayDraws(players[p]) :
         /\ players' = [players EXCEPT ![p] = process_day_logic(players[p], rnd)]
         /\ last' = Call("process_day_logic", <<p>>, players, rnd, "none")
    /\ calls' = calls + 1
    /\ UNCHANGED <<pc, d, i, events, draws, test>>

PrivacyDrain(p1, p2) ==
    /\ pc = "rules" /\ test = "privacy"
    /\ calls < MaxCalls
    /\ players' = simulate_privacy_drain(players, p1, p2)
    /\ last' = Call("simulate_privacy_drain", <<p1, p2>>, players, <<>>, "none")
    /\ calls' = calls + 1
    /\ UNCHANGED <<pc, d, i, events, draws, test>>

NoiseEvent(seq) ==
    /\ pc = "rules" /\ test = "noise"
    /\ \E rnd \in [1..Len(seq) -> NoiseDraws] :
         /\ players' = simulate_noise_event(players, seq, rnd)
         /\ last' = Call("simulate_noise_event", seq, players, rnd, "none")
    /\ pc' = "tested"
    /\ UNCHANGED <<d, i, events, draws, calls, test>>

BetrayalCheck(p) ==
    /\ pc = "rules" /\ test = "betrayal"
    /\ \E roll \in Rolls :
         last' = Call("betrayal_check", <<p>>, players, <<roll>>,
                      betrayal_check(players[p], roll))
    /\ pc' = "tested"
    /\ UNCHANGED <<players, d, i, events, draws, calls, test>>

(* Lines 63-64 draw one roll per call of betrayal_check; lines 66-79 follow *)
DuoDilemma(p1, p2) ==
    /\ pc = "rules" /\ test = "duo"
    /\ \E b1 \in BetrayalOutcomes(players[p1]), b2 \in BetrayalOutcomes(players[p2]) :
         last' = Call("simulate_duo_dilemma", <<p1, p2>>, players, <<>>,
                      simulate_duo_dilemma(players, p1, p2, b1, b2))
    /\ pc' = "tested"
    /\ UNCHANGED <<players, d, i, events, draws, calls, test>>

RuleNext ==
    \/ \E p \in DOMAIN players, dd \in 1..MaxDay : SetDay(p, dd)
    \/ \E p \in DOMAIN players : ProcessDay(p)
    \/ \E p1 \in DOMAIN players, p2 \in DOMAIN players : PrivacyDrain(p1, p2)
    \/ \E seq \in Lists(players) : NoiseEvent(seq)
    \/ \E p \in DOMAIN players : BetrayalCheck(p)
    \/ \E p1 \in DOMAIN players, p2 \in DOMAIN players : DuoDilemma(p1, p2)

RuleSpec == RuleInit /\ [][RuleNext]_vars

(* All three entry points together *)
AllSpec == (Init \/ RuleInit) /\ [][Next \/ RuleNext]_vars

----------------------------------------------------------------------------
(* Properties *)

Threshold(pl) == pl.empathy + (100 - pl.sanity)

(* C1: betrayal_check(player) returns true exactly when the roll (0..150) is  *)
(* strictly above empathy + (100 - sanity), for empathy in 30..70, and the    *)
(* call changes no field of any Player.                                       *)
C1_BetrayalIffRollAboveThreshold ==
    last.op = "betrayal_check" =>
        LET pl == last.pre[last.args[1]]
            roll == last.rnd[1]
        IN  /\ pl.empathy \in 30..70
            /\ roll \in 0..150
            /\ (roll > Threshold(pl) => last.ret = TRUE)
            /\ (roll <= Threshold(pl) => last.ret = FALSE)
            /\ players = last.pre

(* a roll equal to the threshold, on a Player whose sanity has moved *)
C1_Witness ==
    /\ last.op = "betrayal_check"
    /\ last.rnd[1] = Threshold(last.pre[last.args[1]])
    /\ last.pre[last.args[1]].sanity # 100
    /\ last.ret = FALSE

(* C2: simulate_duo_dilemma maps the two choices to exactly one outcome of    *)
(* the table: both cooperate -> split; only p1 betrays -> p1 wins; only p2    *)
(* betrays -> p2 wins; both betray -> reward lost.  Each choice is one that   *)
(* some roll of that Player's own betrayal_check yields; no Player changes.   *)
C2_DuoOutcomeTable ==
    last.op = "simulate_duo_dilemma" =>
        LET r == last.ret
            a == last.pre[last.args[1]]
            b == last.pre[last.args[2]]
            out == <<r.result, r.winner>>
        IN  /\ r.choice1 \in {"Cooperate", "Betray"}
            /\ r.choice2 \in {"Cooperate", "Betray"}
            /\ (r.choice1 = "Betray" => \E roll \in 0..150 : roll > Threshold(a))
            /\ (r.choice1 = "Cooperate" => \E roll \in 0..150 : roll <= Threshold(a))
            /\ (r.choice2 = "Betray" => \E roll \in 0..150 : roll > Threshold(b))
            /\ (r.choice2 = "Cooperate" => \E roll \in 0..150 : roll <= Threshold(b))
            /\ (r.choice1 = "Cooperate" /\ r.choice2 = "Cooperate"
                    => out = <<"split", "none">>)
            /\ (r.choice1 = "Betray" /\ r.choice2 = "Cooperate"
                    => out = <<"wins", a.name>>)
            /\ (r.choice1 = "Cooperate" /\ r.choice2 = "Betray"
                    => out = <<"wins", b.name>>)
            /\ (r.choice1 = "Betray" /\ r.choice2 = "Betray"
                    => out = <<"lost", "none">>)
            /\ players = last.pre

(* two distinct Players, only the second betrays *)
C2_Witness ==
    /\ last.op = "simulate_duo_dilemma"
    /\ last.args[1] # last.args[2]
    /\ last.ret.choice1 = "Cooperate"
    /\ last.ret.choice2 = "Betray"
    /\ last.ret.winner = last.pre[last.args[2]].name

(* C3: one call of process_day_logic on a Redeemed Player whose day is in     *)
(* 1..5 lowers sanity by exactly 5, consumes no random draw and changes       *)
(* nothing else.                                                              *)
C3_RedeemedWithdrawal ==
    (/\ last.op = "process_day_logic"
     /\ last.pre[last.args[1]].archetype = "Redeemed"
     /\ last.pre[last.args[1]].day \in 1..5)
    => /\ players = [last.pre EXCEPT ![last.args[1]].sanity = @ - 5]
       /\ last.rnd = <<>>

(* the call on day 5, on a Player already in withdrawal *)
C3_Witness ==
    /\ last.op = "process_day_logic"
    /\ last.pre[last.args[1]].archetype = "Redeemed"
    /\ last.pre[last.args[1]].day = 5
    /\ last.pre[last.args[1]].sanity = 95
    /\ players[last.args[1]].sanity = 90

(* C4: has_consumed is false for every Player in every reachable state, and   *)
(* every call of process_day_logic on a Redeemed Player with day > 5 adds 20. *)
C4_ClarityEveryCall ==
    /\ \A n \in DOMAIN players : players[n].has_consumed = FALSE
    /\ (/\ last.op = "process_day_logic"
        /\ last.pre[last.args[1]].archetype = "Redeemed"
        /\ last.pre[last.args[1]].day > 5)
       => players = [last.pre EXCEPT ![last.args[1]].sanity = @ + 20]

(* the bonus applied to a Player that had received it already *)
C4_Witness ==
    /\ last.op = "process_day_logic"
    /\ last.pre[last.args[1]].archetype = "Redeemed"
    /\ last.pre[last.args[1]].day > 5
    /\ last.pre[last.args[1]].sanity = 120
    /\ players[last.args[1]].sanity = 140

(* C5: one call of process_day_logic on a Veteran, on any day, changes sanity *)
(* by exactly +5 or exactly -10 and changes nothing else.                     *)
C5_VeteranDelta ==
    (/\ last.op = "process_day_logic"
     /\ last.pre[last.args[1]].archetype = "Veteran")
    => \/ players = [last.pre EXCEPT ![last.args[1]].sanity = @ + 5]
       \/ players = [last.pre EXCEPT ![last.args[1]].sanity = @ - 10]

(* a Veteran past day 5 gaining 5 *)
C5_Witness ==
    /\ last.op = "process_day_logic"
    /\ last.pre[last.args[1]].archetype = "Veteran"
    /\ last.pre[last.args[1]].day > 5
    /\ players[last.args[1]].sanity = last.pre[last.args[1]].sanity + 5

(* C6: simulate_noise_event drains every entry of the list with that entry's  *)
(* own draw: 10..20 for a non-Mystic, the floor-halved draw (5..10) for a     *)
(* Mystic.  A Player listed m times loses the sum of m such drains (once: one *)
(* value in its range, equal to its own draw or half of it; not listed:       *)
(* nothing); no other field changes.                                          *)
Entries(seq, n) == {k \in 1..Len(seq) : seq[k] = n}

C6_NoiseDrainPerPlayer ==
    last.op = "simulate_noise_event" =>
        /\ Len(last.rnd) = Len(last.args)
        /\ DOMAIN players = DOMAIN last.pre
        /\ \A n \in DOMAIN players :
             LET m == Cardinality(Entries(last.args, n))
                 loss == last.pre[n].sanity - players[n].sanity
                 mystic == last.pre[n].archetype = "Mystic"
             IN  /\ players[n] = [last.pre[n] EXCEPT !.sanity = @ - loss]
                 /\ IF mystic THEN loss \in (5 * m)..(10 * m)
                              ELSE loss \in (10 * m)..(20 * m)
                 /\ m = 1 =>
                      \A k \in Entries(last.args, n) :
                          /\ last.rnd[k] \in 10..20
                          /\ loss = IF mystic THEN last.rnd[k] \div 2 ELSE last.rnd[k]

(* a Mystic and a non-Mystic in one list, drained by different draws: the     *)
(* Mystic by half of an odd draw                                              *)
C6_Witness ==
    /\ last.op = "simulate_noise_event"
    /\ Len(last.args) = 2
    /\ last.args[1] # last.args[2]
    /\ last.pre[last.args[1]].archetype = "Mystic"
    /\ last.pre[last.args[2]].archetype # "Mystic"
    /\ last.rnd = <<11, 20>>
    /\ players[last.args[1]].sanity = last.pre[last.args[1]].sanity - 5
    /\ players[last.args[2]].sanity = last.pre[last.args[2]].sanity - 20

(* C7 as stated: after simulate_privacy_drain(actor, witness) the actor's     *)
(* sanity is exactly 5 lower and the witness's exactly 3 lower than before    *)
(* the call, also when one Player is passed in both positions.                *)
C7_ActorFiveWitnessThree ==
    last.op = "simulate_privacy_drain" =>
        /\ players[last.args[1]].sanity = last.pre[last.args[1]].sanity - 5
        /\ players[last.args[2]].sanity = last.pre[last.args[2]].sanity - 3

(* C7 amended: for two different Players the actor is exactly 5 lower and the *)
(* witness exactly 3 lower; a Player passed in both positions is 8 lower;     *)
(* nothing else changes, whatever the archetypes and prior sanity.            *)
C7_PrivacyDrainAmended ==
    last.op = "simulate_privacy_drain" =>
        LET a == last.args[1]
            w == last.args[2]
        IN  IF a = w
            THEN players = [last.pre EXCEPT ![a].sanity = @ - 8]
            ELSE players = [last.pre EXCEPT ![a].sanity = @ - 5, ![w].sanity = @ - 3]

(* one Player as actor and witness *)
C7_Witness ==
    /\ last.op = "simulate_privacy_drain"
    /\ last.args[1] = last.args[2]
    /\ players[last.args[1]].sanity = last.pre[last.args[1]].sanity - 8

(* C8: the __main__ block makes its rule calls in this order: for each day    *)
(* 1..6, the day-effect of Frank then of Simon, each seeing its day already   *)
(* set to that day; on day 3 only, after both day-effects, the noise event on *)
(* the whole list and then the privacy drain (Frank, Simon); after day 6 the  *)
(* endgame once; nothing after it.                                            *)
OrderOfDay(dd) ==
    <<Event("process_day_logic", <<"Frank">>, dd, dd),
      Event("process_day_logic", <<"Simon">>, dd, dd)>>
    \o (IF dd = 3
        THEN <<Event("simulate_noise_event", <<"Frank", "Simon">>, 3, 0),
               Event("simulate_privacy_drain", <<"Frank", "Simon">>, 3, 0)>>
        ELSE <<>>)

OrderOfRun ==
    OrderOfDay(1) \o OrderOfDay(2) \o OrderOfDay(3) \o OrderOfDay(4)
    \o OrderOfDay(5) \o OrderOfDay(6)
    \o <<Event("simulate_duo_dilemma", <<"Frank", "Simon">>, 6, 0)>>

C8_DriverOrder ==
    /\ Len(events) <= Len(OrderOfRun)
    /\ events = SubSeq(OrderOfRun, 1, Len(events))
    /\ (pc = "done" <=> events = OrderOfRun)
    /\ (pc = "endgame" => Len(events) = Len(OrderOfRun) - 1)

(* the run is over, all fifteen calls made *)
C8_Witness ==
    /\ pc = "done"
    /\ Len(events) = 15
    /\ events[7].call = "simulate_noise_event"
    /\ events[15].call = "simulate_duo_dilemma"

(* C9: at the end of a run of the __main__ block Simon's sanity is 92 - n for *)
(* his noise draw n in 10..20 (within 72..82); Frank's is 100 + (six deltas,  *)
(* -10 for each coin that came up True and +5 for each other) - n' - 5 for    *)
(* his noise draw n' in 10..20 (within 15..115); the endgame changes neither. *)
C9_FinalSanityFold ==
    pc = "done" =>
        LET n == draws.noise[2]
            nf == draws.noise[1]
            k == draws.social
        IN  /\ n \in 10..20 /\ nf \in 10..20 /\ k \in 0..6
            /\ players["Simon"].sanity = 100 - 5 * 5 + 20 - n - 3
            /\ players["Simon"].sanity = 92 - n
            /\ players["Simon"].sanity \in 72..82
            /\ players["Frank"].sanity = 100 + (5 * (6 - k) - 10 * k) - nf - 5
            /\ players["Frank"].sanity \in 15..115
            /\ players = last.pre

(* the lowest final values of both *)
C9_Witness ==
    /\ pc = "done"
    /\ players["Frank"].sanity = 15
    /\ players["Simon"].sanity = 72
    /\ draws.social = 6

(* C10: the script, run top to bottom, raises no error on the way to the end  *)
(* of the endgame resolution.                                                 *)
C10_NoStepRaises == pc # "IndentationError"

====
